---- MODULE Spec2Model ----
(***************************************************************************)
(* MeteorGuard frontend (frontend/src/App.tsx): the circle() polygon       *)
(* generator, the App component's state with its map click / move          *)
(* handlers and easeTo effect, the memoised overlay layers, and the two    *)
(* request pipelines (runSim, refresh list).                               *)
(*                                                                         *)
(* Numbers are fixed point: longitudes and latitudes are in units of 1e-5  *)
(* degree, radii in metres, angles in units of 1e-4 radian, cosines and    *)
(* sines in units of 1e-4.                                                 *)
(***************************************************************************)
EXTENDS Integers, Sequences, FiniteSets, TLC

VARIABLES
    center,      \* useState: the entry point <<lon, lat>>
    sim,         \* useState: SimulationResult or Null
    simStatus,   \* useState: "idle" | "loading" | "error"
    simError,    \* useState: string or Null
    phaStatus,   \* useState: "idle" | "loading" | "error"
    phaError,    \* useState: string or Null
    phaResults,  \* useState: PhaResult[]
    params,      \* useState: the form values
    viewState,   \* useState: the camera pose handed to DeckGL
    map,         \* mapRef.current: the maplibre widget's camera and its easing
    layers,      \* useMemo(..., [sim]): the memoised overlay layers
    simCalls,    \* the pending simulate() promises, in the order they were issued
    phaCalls,    \* the pending neoSearch() promises, in the order they were issued
    lastSim,     \* history: the latest runSim() call, what it saw and how it went
    lastPha,     \* history: the latest refresh-list call, what it saw and how it went
    lastInput,   \* history: the latest map input, "none" | "click" | "gesture"
    events,      \* history: the number of user actions so far
    call,        \* circle() harness: the arguments of a call, or Null
    ret          \* circle() harness: what the call returned, or Null

vars == <<center, sim, simStatus, simError, phaStatus, phaError, phaResults,
          params, viewState, map, layers, simCalls, phaCalls, lastSim, lastPha,
          lastInput, events, call, ret>>

appVars == <<center, sim, simStatus, simError, phaStatus, phaError, phaResults,
             params, viewState, map, layers, simCalls, phaCalls, lastSim,
             lastPha, lastInput, events>>

\* null where an object is expected, null where a string is expected, and the
\* undefined element of an array of pairs.
Null == [isNull |-> TRUE]
NullString == "<null>"
Undefined == <<>>

(***************************************************************************)
(* Bounds of the model.                                                    *)
(***************************************************************************)
MaxSteps == 8       \* circle() is called with steps in 0..MaxSteps
MaxRows == 2        \* neoSearch() answers with at most MaxRows rows
MaxInFlight == 2    \* runSim() is called at most MaxInFlight times at once
EaseFrames == 2     \* the frames of one eased transition
MaxEvents == 4      \* the user acts at most MaxEvents times

(***************************************************************************)
(* Program constants.                                                      *)
(***************************************************************************)
R == 6378137
DefaultSteps == 128
InitZoom == 8

InitCenter == <<7759460, 1297160>>

\* The places a click or a pan can land on, <<lon, lat>>.
Points == {InitCenter, <<-12241940, 3777490>>}

\* The radii (metres) a simulation answers with.
Radii == {800, 2000}

(***************************************************************************)
(* Math.cos and Math.sin, fixed point: the argument in 1e-4 radian, the    *)
(* value in 1e-4. Range reduction to [0, pi/2], then the Taylor polynomial *)
(* to x^8 in Horner form.                                                  *)
(***************************************************************************)
Abs(x) == IF x < 0 THEN -x ELSE x

CosQ(x) ==
    LET x2 == (x * x) \div 10000
        t4 == 10000 - x2 \div 56
        t3 == 10000 - ((x2 * t4) \div 10000) \div 30
        t2 == 10000 - ((x2 * t3) \div 10000) \div 12
    IN  10000 - ((x2 * t2) \div 10000) \div 2

Cos(x) ==
    LET a == Abs(x) % 62832
        b == IF a > 31416 THEN 62832 - a ELSE a
    IN  IF b > 15708 THEN -CosQ(31416 - b) ELSE CosQ(b)

Sin(x) == Cos(x - 15708)

\* lat * Math.PI/180, from 1e-5 degree to 1e-4 radian
Radians(lat) == ((lat \div 100) * 17453) \div 100000

(***************************************************************************)
(* circle(center, radiusMeters, steps): App.tsx lines 12-26.               *)
(***************************************************************************)
\* A faulty variant of circleVertex: the offsets are not added to the centre's longitude.
circleVertexNoLon(c, radiusMeters, steps, i) ==
    LET theta == (i * 62832) \div steps
        dx == (radiusMeters * Cos(theta)) \div 10000
        dy == (radiusMeters * Sin(theta)) \div 10000
        dLon == (dx * 572958) \div (((R \div 1000) * Cos(Radians(c[2]))) \div 100)
        dLat == (dy * 572958) \div (R \div 10)
    IN  <<dLon, c[2] + dLat>>

\* One pass of the loop body, lines 17-22: the vertex of index i.
circleVertex(c, radiusMeters, steps, i) ==
    LET theta == (i * 62832) \div steps
        dx == (radiusMeters * Cos(theta)) \div 10000
        dy == (radiusMeters * Sin(theta)) \div 10000
        dLon == (dx * 572958) \div (((R \div 1000) * Cos(Radians(c[2]))) \div 100)
        dLat == (dy * 572958) \div (R \div 10)
    IN  <<c[1] + dLon, c[2] + dLat>>

\* A faulty variant of circleCoords: the ring is left open.
circleCoordsOpen(c, radiusMeters, steps) ==
    [i \in 1..steps |-> circleVertex(c, radiusMeters, steps, i - 1)]

\* coords after the loop and the closing push of coords[0], lines 14-24.
\* With steps = 0 the loop pushes nothing and coords[0] is undefined.
circleCoords(c, radiusMeters, steps) ==
    LET coords == [i \in 1..steps |-> circleVertex(c, radiusMeters, steps, i - 1)]
    IN  Append(coords, IF steps > 0 THEN coords[1] ELSE Undefined)

circle(c, radiusMeters, steps) ==
    [type |-> "Feature",
     geometry |-> [type |-> "Polygon",
                   coordinates |-> <<circleCoords(c, radiusMeters, steps)>>]]

(***************************************************************************)
(* The App component's state after mounting: the useState initial values   *)
(* (lines 45-65), the map built by the first effect (lines 69-77) and the  *)
(* easeTo({center}) of the second effect's first run (lines 97-100).       *)
(***************************************************************************)
InitParams ==
    [diameter_m |-> 140, density_kg_m3 |-> 3000, velocity_kms |-> 19,
     angle_deg |-> 30, composition |-> "stony"]

\* The values the form's inputs are set to, per field.
FieldValues ==
    [diameter_m |-> {140, 300}, density_kg_m3 |-> {3000}, velocity_kms |-> {19},
     angle_deg |-> {30}, composition |-> {"stony"}]

Zooms == {InitZoom, 5}
Bearings == {0, 30}
Pitches == {0}

\* What simulate() and neoSearch() reject with: an Error, or a value that is none.
Thrown == {[isError |-> TRUE, message |-> "Network Error"],
           [isError |-> FALSE, message |-> ""]}

Candidates == {[des |-> "99942", spkid |-> "20099942", pha |-> "Y"],
               [des |-> "101955", spkid |-> "20101955", pha |-> "Y"]}

\* The answers of neoSearch(): the sequences of at most MaxRows candidates.
Rows == UNION {[1..n -> Candidates] : n \in 0..MaxRows}

\* The answers of simulate() to a request: the centre is the request's place.
Responses(req) ==
    {[regime |-> "airburst", e_kt |-> 100,
      center |-> [lat |-> req.lat, lon |-> req.lon],
      overpressure_radii_m |-> ("1psi" :> r1 @@ "5psi" :> r5)] :
        r1 \in Radii, r5 \in Radii}

RemoveAt(s, i) == [j \in 1..(Len(s) - 1) |-> IF j < i THEN s[j] ELSE s[j + 1]]

\* A faulty variant of computeLayers: the rings are drawn around the entry point.
computeLayersAtEntry(s) ==
    IF s = Null THEN <<>>
    ELSE LET f1 == circle(center, s.overpressure_radii_m["1psi"], DefaultSteps)
             f5 == circle(center, s.overpressure_radii_m["5psi"], DefaultSteps)
         IN  <<[id |-> "op-1psi",
                data |-> [type |-> "FeatureCollection", features |-> <<f1>>]],
               [id |-> "op-5psi",
                data |-> [type |-> "FeatureCollection", features |-> <<f5>>]]>>

\* The body of useMemo(..., [sim]), lines 102-127.
computeLayers(s) ==
    IF s = Null THEN <<>>
    ELSE LET ctr == <<s.center.lon, s.center.lat>>
             f1 == circle(ctr, s.overpressure_radii_m["1psi"], DefaultSteps)
             f5 == circle(ctr, s.overpressure_radii_m["5psi"], DefaultSteps)
         IN  <<[id |-> "op-1psi",
                data |-> [type |-> "FeatureCollection", features |-> <<f1>>]],
               [id |-> "op-5psi",
                data |-> [type |-> "FeatureCollection", features |-> <<f5>>]]>>

\* The values sim takes, and the layers of each, computed once.
SimValues == UNION {Responses([lat |-> p[2], lon |-> p[1]]) : p \in Points}

layersTable == [s \in SimValues \cup {Null} |-> computeLayers(s)]

AppInit ==
    /\ center = InitCenter
    /\ sim = Null
    /\ simStatus = "idle"
    /\ simError = NullString
    /\ phaStatus = "idle"
    /\ phaError = NullString
    /\ phaResults = <<>>
    /\ params = InitParams
    /\ viewState = [longitude |-> InitCenter[1], latitude |-> InitCenter[2],
                    zoom |-> InitZoom, bearing |-> 0, pitch |-> 0]
    /\ map = [center |-> InitCenter, zoom |-> InitZoom, bearing |-> 0, pitch |-> 0,
              ease |-> [from |-> InitCenter, to |-> InitCenter, k |-> 0]]
    /\ layers = computeLayers(Null)
    /\ simCalls = <<>>
    /\ phaCalls = <<>>
    /\ lastSim = [settled |-> Null, newest |-> Null]
    /\ lastPha = Null
    /\ lastInput = "none"
    /\ events = 0

Init ==
    /\ AppInit
    /\ call = Null
    /\ ret = Null

(***************************************************************************)
(* The map: click and move handlers (lines 78-90), the easeTo effect       *)
(* (lines 97-100).                                                         *)
(***************************************************************************)
\* A faulty variant of onMove: the longitude of the view state is not refreshed.
onMoveKeepLongitude(m) ==
    [longitude |-> viewState.longitude, latitude |-> m.center[2], zoom |-> m.zoom,
     bearing |-> m.bearing, pitch |-> m.pitch]

\* A faulty variant of onMove: the position is taken from the entry point, not
\* from the map's camera.
onMoveUsesEntryPoint(m) ==
    [longitude |-> center[1], latitude |-> center[2], zoom |-> m.zoom,
     bearing |-> m.bearing, pitch |-> m.pitch]

\* The 'move' handler, lines 81-90: the view state is the map's live camera.
onMove(m) ==
    [longitude |-> m.center[1], latitude |-> m.center[2], zoom |-> m.zoom,
     bearing |-> m.bearing, pitch |-> m.pitch]

\* A faulty variant of MapClick: choosing a new entry point removes the rings.
MapClickClearsRings ==
    \E p \in Points :
        /\ events < MaxEvents
        /\ center' = p
        /\ map' = [map EXCEPT !.ease = [from |-> map.center, to |-> p, k |-> 0]]
        /\ layers' = <<>>
        /\ lastInput' = "click"
        /\ events' = events + 1
        /\ UNCHANGED <<sim, simStatus, simError, phaStatus, phaError, phaResults,
                       params, viewState, simCalls, phaCalls, lastSim,
                       lastPha, call, ret>>

\* The 'click' handler, lines 78-80, and the effect it triggers, lines 97-100:
\* the entry point is the clicked place and the map starts easing to it.
MapClick ==
    \E p \in Points :
        /\ events < MaxEvents
        /\ center' = p
        /\ map' = [map EXCEPT !.ease = [from |-> map.center, to |-> p, k |-> 0]]
        /\ lastInput' = "click"
        /\ events' = events + 1
        /\ UNCHANGED <<sim, simStatus, simError, phaStatus, phaError, phaResults,
                       params, viewState, layers, simCalls, phaCalls, lastSim,
                       lastPha, call, ret>>

\* The place of the camera at frame k of an eased transition.
easePosition(e, k) ==
    <<e.from[1] + ((e.to[1] - e.from[1]) * k) \div EaseFrames,
      e.from[2] + ((e.to[2] - e.from[2]) * k) \div EaseFrames>>

\* One frame of the transition easeTo started: the camera moves and 'move' fires.
EaseFrame ==
    /\ map.ease # Null
    /\ LET k == map.ease.k + 1
       IN  map' = [map EXCEPT !.center = easePosition(map.ease, k),
                              !.ease = IF k = EaseFrames THEN Null
                                       ELSE [map.ease EXCEPT !.k = k]]
    /\ viewState' = onMove(map')
    /\ UNCHANGED <<center, sim, simStatus, simError, phaStatus, phaError,
                   phaResults, params, layers, simCalls, phaCalls, lastSim,
                   lastPha, lastInput, events, call, ret>>

\* A pan, zoom, rotate or tilt gesture: it stops the transition in progress,
\* sets one part of the camera, and 'move' fires.
Gesture ==
    /\ events < MaxEvents
    /\ \/ \E p \in Points : map' = [map EXCEPT !.center = p, !.ease = Null]
       \/ \E z \in Zooms : map' = [map EXCEPT !.zoom = z, !.ease = Null]
       \/ \E b \in Bearings : map' = [map EXCEPT !.bearing = b, !.ease = Null]
       \/ \E t \in Pitches : map' = [map EXCEPT !.pitch = t, !.ease = Null]
    /\ viewState' = onMove(map')
    /\ lastInput' = "gesture"
    /\ events' = events + 1
    /\ UNCHANGED <<center, sim, simStatus, simError, phaStatus, phaError,
                   phaResults, params, layers, simCalls, phaCalls, lastSim,
                   lastPha, call, ret>>

\* The onChange handlers of the form, lines 165-208: one field is replaced.
SetParam ==
    \E f \in DOMAIN FieldValues : \E v \in FieldValues[f] :
        /\ events < MaxEvents
        /\ params' = [params EXCEPT ![f] = v]
        /\ events' = events + 1
        /\ UNCHANGED <<center, sim, simStatus, simError, phaStatus, phaError,
                       phaResults, viewState, map, layers, simCalls, phaCalls,
                       lastSim, lastPha, lastInput, call, ret>>

(***************************************************************************)
(* The simulation pipeline: runSim, lines 129-140.                         *)
(***************************************************************************)
\* A faulty variant of runSim: the status is not set to loading.
runSimNoLoading ==
    /\ simError' = NullString
    /\ simCalls' = Append(simCalls,
           [request |-> params @@ [lat |-> center[2], lon |-> center[1]],
            simBefore |-> sim])
    /\ lastSim' = [lastSim EXCEPT !.newest = [outcome |-> "pending", value |-> Null]]
    /\ UNCHANGED <<center, sim, simStatus, phaStatus, phaError, phaResults, params,
                   viewState, map, layers, phaCalls, lastPha, lastInput,
                   call, ret>>

\* A faulty variant of runSim: the error of the previous run is not cleared.
runSimKeepsError ==
    /\ simStatus' = "loading"
    /\ simCalls' = Append(simCalls,
           [request |-> params @@ [lat |-> center[2], lon |-> center[1]],
            simBefore |-> sim])
    /\ lastSim' = [lastSim EXCEPT !.newest = [outcome |-> "pending", value |-> Null]]
    /\ UNCHANGED <<center, sim, simError, phaStatus, phaError, phaResults, params,
                   viewState, map, layers, phaCalls, lastPha, lastInput,
                   call, ret>>

\* A faulty variant of runSim: the request's place is read from the view state.
runSimFromView ==
    /\ simStatus' = "loading"
    /\ simError' = NullString
    /\ simCalls' = Append(simCalls,
           [request |-> params @@ [lat |-> viewState.latitude,
                                   lon |-> viewState.longitude],
            simBefore |-> sim])
    /\ lastSim' = [lastSim EXCEPT !.newest = [outcome |-> "pending", value |-> Null]]
    /\ UNCHANGED <<center, sim, phaStatus, phaError, phaResults, params,
                   viewState, map, layers, phaCalls, lastPha, lastInput,
                   call, ret>>

\* runSim() up to its await, lines 130-133: the status is loading, the error is
\* cleared, and simulate() is called with the form values and the entry point.
runSim ==
    /\ simStatus' = "loading"
    /\ simError' = NullString
    /\ simCalls' = Append(simCalls,
           [request |-> params @@ [lat |-> center[2], lon |-> center[1]],
            simBefore |-> sim])
    /\ lastSim' = [lastSim EXCEPT !.newest = [outcome |-> "pending", value |-> Null]]
    /\ UNCHANGED <<center, sim, phaStatus, phaError, phaResults, params,
                   viewState, map, layers, phaCalls, lastPha, lastInput,
                   call, ret>>

\* A faulty variant of ClickRunSim: the button is never disabled.
ClickRunSimAlways ==
    /\ events < MaxEvents
    /\ runSim
    /\ events' = events + 1

\* The run-simulation button, lines 220-222: disabled while the status is loading.
ClickRunSim ==
    /\ events < MaxEvents
    /\ simStatus # "loading"
    /\ runSim
    /\ events' = events + 1

\* runSim() called whatever the status is, as a caller of the function can.
CallRunSim ==
    /\ events < MaxEvents
    /\ Len(simCalls) < MaxInFlight
    /\ runSim
    /\ events' = events + 1

\* Whether pending call i is the most recently issued one.
IsNewest(i) ==
    /\ i = Len(simCalls)
    /\ lastSim.newest # Null
    /\ lastSim.newest.outcome = "pending"

\* A faulty variant of simResolved: the answer is dropped.
simResolvedDropped(i, data) ==
    /\ simStatus' = "idle"
    /\ simCalls' = RemoveAt(simCalls, i)
    /\ lastSim' = [settled |-> [outcome |-> "ok", value |-> data],
                   newest |-> IF IsNewest(i) THEN [outcome |-> "ok", value |-> data]
                             ELSE lastSim.newest]
    /\ UNCHANGED <<center, sim, layers, simError, phaStatus, phaError, phaResults,
                   params, viewState, map, phaCalls, lastPha, lastInput, events,
                   call, ret>>

\* A faulty variant of simResolved: the entry point is moved to the answer's centre.
simResolvedRecentres(i, data) ==
    /\ sim' = data
    /\ simStatus' = "idle"
    /\ layers' = layersTable[sim']
    /\ center' = <<data.center.lon, data.center.lat>>
    /\ simCalls' = RemoveAt(simCalls, i)
    /\ lastSim' = [settled |-> [outcome |-> "ok", value |-> data],
                   newest |-> IF IsNewest(i) THEN [outcome |-> "ok", value |-> data]
                             ELSE lastSim.newest]
    /\ UNCHANGED <<simError, phaStatus, phaError, phaResults, params,
                   viewState, map, phaCalls, lastPha, lastInput, events, call, ret>>

\* runSim() after its await, lines 133-135: the answer is stored, the status is
\* idle; the render that follows recomputes the layers, sim having changed.
simResolved(i, data) ==
    /\ sim' = data
    /\ simStatus' = "idle"
    /\ layers' = layersTable[sim']
    /\ simCalls' = RemoveAt(simCalls, i)
    /\ lastSim' = [settled |-> [outcome |-> "ok", value |-> data],
                   newest |-> IF IsNewest(i) THEN [outcome |-> "ok", value |-> data]
                             ELSE lastSim.newest]
    /\ UNCHANGED <<center, simError, phaStatus, phaError, phaResults, params,
                   viewState, map, phaCalls, lastPha, lastInput, events, call, ret>>

SimResolve ==
    \E i \in DOMAIN simCalls : \E data \in Responses(simCalls[i].request) :
        simResolved(i, data)

\* A faulty variant of simRejected: the stale result is cleared with the error.
simRejectedClears(i, error) ==
    /\ sim' = Null
    /\ layers' = computeLayers(sim')
    /\ simStatus' = "error"
    /\ simError' = IF error.isError THEN error.message ELSE "Simulation failed."
    /\ simCalls' = RemoveAt(simCalls, i)
    /\ lastSim' = [settled |-> [outcome |-> "failed", value |-> error],
                   newest |-> IF IsNewest(i) THEN [outcome |-> "failed", value |-> Null]
                             ELSE lastSim.newest]
    /\ UNCHANGED <<center, phaStatus, phaError, phaResults, params,
                   viewState, map, phaCalls, lastPha, lastInput, events, call, ret>>

\* runSim()'s catch, lines 136-139.
simRejected(i, error) ==
    /\ simStatus' = "error"
    /\ simError' = IF error.isError THEN error.message ELSE "Simulation failed."
    /\ simCalls' = RemoveAt(simCalls, i)
    /\ lastSim' = [settled |-> [outcome |-> "failed", value |-> error],
                   newest |-> IF IsNewest(i) THEN [outcome |-> "failed", value |-> Null]
                             ELSE lastSim.newest]
    /\ UNCHANGED <<center, sim, layers, phaStatus, phaError, phaResults, params,
                   viewState, map, phaCalls, lastPha, lastInput, events, call, ret>>

SimReject ==
    \E i \in DOMAIN simCalls : \E error \in Thrown : simRejected(i, error)

(***************************************************************************)
(* The candidate-search pipeline: the refresh-list button, lines 259-276.  *)
(***************************************************************************)
\* The onClick handler up to its await, lines 262-265.
refreshList ==
    /\ phaStatus' = "loading"
    /\ phaError' = NullString
    /\ phaCalls' = Append(phaCalls, [phaOnly |-> TRUE, limit |-> 6])
    /\ UNCHANGED <<center, sim, simStatus, simError, phaResults, params, viewState,
                   map, layers, simCalls, lastSim, lastPha, lastInput,
                   call, ret>>

\* A faulty variant of ClickRefresh: the button is never disabled.
ClickRefreshAlways ==
    /\ events < MaxEvents
    /\ refreshList
    /\ events' = events + 1

\* The button is disabled while the status is loading, line 273.
ClickRefresh ==
    /\ events < MaxEvents
    /\ phaStatus # "loading"
    /\ refreshList
    /\ events' = events + 1

\* A faulty variant of phaResolved: the rows are added to the list.
phaResolvedAppends(i, rows) ==
    /\ phaResults' = phaResults \o rows
    /\ phaStatus' = "idle"
    /\ phaCalls' = RemoveAt(phaCalls, i)
    /\ lastPha' = [outcome |-> "ok", value |-> rows]
    /\ UNCHANGED <<center, sim, simStatus, simError, phaError, params, viewState,
                   map, layers, simCalls, lastSim, lastInput, events, call, ret>>

\* The handler after its await, lines 265-267.
phaResolved(i, rows) ==
    /\ phaResults' = rows
    /\ phaStatus' = "idle"
    /\ phaCalls' = RemoveAt(phaCalls, i)
    /\ lastPha' = [outcome |-> "ok", value |-> rows]
    /\ UNCHANGED <<center, sim, simStatus, simError, phaError, params, viewState,
                   map, layers, simCalls, lastSim, lastInput, events, call, ret>>

PhaResolve ==
    \E i \in DOMAIN phaCalls : \E rows \in Rows : phaResolved(i, rows)

\* A faulty variant of phaRejected: the failure is also written to the
\* simulation's status.
phaRejectedSetsSimStatus(i, error) ==
    /\ phaStatus' = "error"
    /\ simStatus' = "error"
    /\ phaError' = IF error.isError THEN error.message ELSE "Search failed."
    /\ phaCalls' = RemoveAt(phaCalls, i)
    /\ lastPha' = [outcome |-> "failed", value |-> error]
    /\ UNCHANGED <<center, sim, simError, phaResults, params, viewState,
                   map, layers, simCalls, lastSim, lastInput, events, call, ret>>

\* The handler's catch, lines 268-271.
phaRejected(i, error) ==
    /\ phaStatus' = "error"
    /\ phaError' = IF error.isError THEN error.message ELSE "Search failed."
    /\ phaCalls' = RemoveAt(phaCalls, i)
    /\ lastPha' = [outcome |-> "failed", value |-> error]
    /\ UNCHANGED <<center, sim, simStatus, simError, phaResults, params, viewState,
                   map, layers, simCalls, lastSim, lastInput, events, call, ret>>

PhaReject ==
    \E i \in DOMAIN phaCalls : \E error \in Thrown : phaRejected(i, error)

(***************************************************************************)
(* The specifications.                                                     *)
(***************************************************************************)
\* The App as rendered: the pipelines are entered through their buttons.
Next ==
    \/ MapClick
    \/ EaseFrame
    \/ Gesture
    \/ SetParam
    \/ ClickRunSim
    \/ SimResolve
    \/ SimReject
    \/ ClickRefresh
    \/ PhaResolve
    \/ PhaReject

Spec == Init /\ [][Next]_vars

\* The map alone: clicks, gestures and the frames of the eased transition, which
\* the widget's animation loop delivers until the transition ends.
NextMap ==
    \/ MapClick
    \/ EaseFrame
    \/ Gesture

SpecMap == Init /\ [][NextMap]_vars /\ WF_vars(EaseFrame)

\* runSim() as a function: called again while earlier calls are pending.
NextRunSim ==
    \/ MapClick
    \/ CallRunSim
    \/ SimResolve
    \/ SimReject

SpecRunSim == Init /\ [][NextRunSim]_vars

(***************************************************************************)
(* The circle() harness: one call with arguments from the bounded sets.    *)
(***************************************************************************)
CircleArgs == [center : Points, radiusMeters : {0} \cup Radii, steps : 0..MaxSteps]

InitCircle ==
    /\ AppInit
    /\ call \in CircleArgs
    /\ ret = Null

\* circle(call.center, call.radiusMeters, call.steps) runs to its return statement.
CallCircle ==
    /\ ret = Null
    /\ ret' = circle(call.center, call.radiusMeters, call.steps)
    /\ UNCHANGED <<call, appVars>>

NextCircle == CallCircle

SpecCircle == InitCircle /\ [][NextCircle]_vars

(***************************************************************************)
(* Properties of circle(), under SpecCircle.                               *)
(***************************************************************************)
Returned == ret # Null
RetCoords == ret.geometry.coordinates[1]

\* C7: for every radius r >= 0 and every steps s >= 3, circle(center, r, s)
\* returns exactly s+1 vertices and the last vertex equals the first.
C7_RingClosed ==
    (Returned /\ call.steps >= 3) =>
        /\ Len(RetCoords) = call.steps + 1
        /\ RetCoords[Len(RetCoords)] = RetCoords[1]

C7_Witness ==
    /\ Returned
    /\ call.steps >= 3
    /\ call.radiusMeters > 0
    /\ RetCoords[2] # RetCoords[1]

\* C8: circle() called with steps < 3 (0, 1 and 2 included) fails with
\* InvalidArgument and returns no ring.
C8_SmallStepsRejected ==
    (Returned /\ call.steps < 3) => ret.type = "InvalidArgument"

\* C9: for every steps s >= 3, circle(center, 0, s) returns s vertices all equal
\* to center followed by one closing duplicate, and not an error.
C9_ZeroRadius ==
    (Returned /\ call.steps >= 3 /\ call.radiusMeters = 0) =>
        /\ ret.type = "Feature"
        /\ Len(RetCoords) = call.steps + 1
        /\ \A i \in 1..(call.steps + 1) : RetCoords[i] = call.center

C9_Witness ==
    /\ Returned
    /\ call.steps >= 3
    /\ call.radiusMeters = 0
    /\ Len(RetCoords) = call.steps + 1

(***************************************************************************)
(* Properties of the simulation pipeline.                                  *)
(***************************************************************************)
SimIssued == Len(simCalls') > Len(simCalls)
SimSettled == Len(simCalls') < Len(simCalls)
PhaIssued == Len(phaCalls') > Len(phaCalls)
PhaSettled == Len(phaCalls') < Len(phaCalls)

\* C1: when request A is issued and, before A resolves, request B is issued with
\* a different entry point, then once every request has resolved the stored
\* result is the one of B, the most recently issued request, whatever the order
\* the answers arrive in: it is the result for B's entry point.
C1_NewestWins ==
    (/\ simCalls = <<>>
     /\ lastSim.newest # Null
     /\ lastSim.newest.outcome = "ok") =>
        /\ sim # Null
        /\ sim.center = lastSim.newest.value.center

\* C2: runSim, started from idle or error, sets the status to loading in the
\* same step as it issues the call; the call settles from loading to idle with
\* the answer stored, or to error with a message; the status never changes
\* between idle and error without passing through loading.
C2_LoadingFirst ==
    [][/\ SimIssued => (simStatus \in {"idle", "error"} /\ simStatus' = "loading")
       /\ SimSettled =>
            /\ simStatus = "loading"
            /\ \/ /\ lastSim'.settled.outcome = "ok"
                  /\ simStatus' = "idle"
                  /\ sim' = lastSim'.settled.value
               \/ /\ lastSim'.settled.outcome = "failed"
                  /\ simStatus' = "error"
                  /\ simError' # NullString
       /\ simStatus' # simStatus => (simStatus = "loading" \/ simStatus' = "loading")
      ]_vars

C2_Witness ==
    /\ lastSim.settled # Null
    /\ lastSim.settled.outcome = "ok"
    /\ simStatus = "idle"
    /\ sim = lastSim.settled.value

\* C3: when a simulation request fails, the stored result is what it was when
\* the request was started, the status is error and the message is the error's
\* own message, or the fixed fallback when the thrown value is no Error; a
\* settling request either replaces the whole result or leaves it unchanged.
C3_FailureKeepsResult ==
    [][SimSettled =>
        /\ lastSim'.settled.outcome = "failed" =>
            /\ \E i \in DOMAIN simCalls :
                  /\ simCalls' = RemoveAt(simCalls, i)
                  /\ sim' = simCalls[i].simBefore
            /\ sim' = sim
            /\ layers' = layers
            /\ simStatus' = "error"
            /\ simError' = IF lastSim'.settled.value.isError
                           THEN lastSim'.settled.value.message
                           ELSE "Simulation failed."
        /\ lastSim'.settled.outcome = "ok" => sim' = lastSim'.settled.value
      ]_vars

C3_Witness ==
    /\ simStatus = "error"
    /\ simError = "Simulation failed."
    /\ sim # Null
    /\ lastSim.settled.outcome = "failed"

\* C4: a pipeline is only entered while its status is idle or error: neither
\* runSim nor the refresh is started while the status of its pipeline is
\* loading, so at most one call of each pipeline is pending.
C4_NoEntryWhileLoading ==
    [][/\ SimIssued => simStatus \in {"idle", "error"}
       /\ PhaIssued => phaStatus \in {"idle", "error"}
       /\ Len(simCalls') <= 1
       /\ Len(phaCalls') <= 1
      ]_vars

C4_Witness ==
    /\ simStatus = "loading"
    /\ lastSim.settled # Null
    /\ lastSim.settled.outcome = "failed"
    /\ phaStatus = "loading"
    /\ lastPha # Null

\* C5: a successful candidate search replaces the stored list by the returned
\* rows, in their order, and the status is idle; a failed one sets the status to
\* error with the error's message, or the fixed fallback, and leaves the list
\* unchanged.
C5_CandidateSearch ==
    [][PhaSettled =>
        IF lastPha'.outcome = "ok"
        THEN /\ phaResults' = lastPha'.value
             /\ phaStatus' = "idle"
        ELSE /\ phaResults' = phaResults
             /\ phaStatus' = "error"
             /\ phaError' = IF lastPha'.value.isError THEN lastPha'.value.message
                            ELSE "Search failed."
      ]_vars

C5_Witness ==
    /\ phaStatus = "error"
    /\ phaError = "Network Error"
    /\ Len(phaResults) = 2
    /\ phaResults[1] # phaResults[2]

(***************************************************************************)
(* Properties of the overlay.                                              *)
(***************************************************************************)
Ring(layer) == layer.data.features[1].geometry.coordinates[1]

\* The squared distance of vertex v from c in the flat metric of circle(), in
\* units of 1e-5 degree of latitude.
FlatDist2(c, v) ==
    LET dx == ((v[1] - c[1]) * Cos(Radians(c[2]))) \div 10000
        dy == v[2] - c[2]
    IN  dx * dx + dy * dy

\* Whether v is within 0.2 degree of c in longitude and in latitude.
Near(c, v) == Abs(v[1] - c[1]) <= 20000 /\ Abs(v[2] - c[2]) <= 20000

\* Every vertex of the ring is at radiusMeters from c, to 4 units (the fixed
\* point arithmetic truncates at each division).
CentredRing(ring, c, radiusMeters) ==
    LET ru == (radiusMeters * 100000) \div 111319
    IN  \A i \in DOMAIN ring :
            /\ Near(c, ring[i])
            /\ FlatDist2(c, ring[i]) <= (ru + 4) * (ru + 4)
            /\ ru > 4 => FlatDist2(c, ring[i]) >= (ru - 4) * (ru - 4)

\* Vertex by vertex, the outer ring is farther from c than the inner one.
Encloses(c, outer, inner) ==
    /\ Len(outer) = Len(inner)
    /\ \A i \in DOMAIN outer : FlatDist2(c, outer[i]) > FlatDist2(c, inner[i])

\* C6: with no result stored the layer list is empty; with one stored there are
\* exactly two rings, 1psi then 5psi, both centred on the result's centre with
\* the radius of their threshold, and when the 1psi radius is the larger the
\* 1psi ring strictly encloses the 5psi ring.
C6_Overlay ==
    IF sim = Null THEN layers = <<>>
    ELSE LET ctr == <<sim.center.lon, sim.center.lat>>
             r1 == sim.overpressure_radii_m["1psi"]
             r5 == sim.overpressure_radii_m["5psi"]
         IN  /\ Len(layers) = 2
             /\ layers[1].id = "op-1psi"
             /\ layers[2].id = "op-5psi"
             /\ CentredRing(Ring(layers[1]), ctr, r1)
             /\ CentredRing(Ring(layers[2]), ctr, r5)
             /\ r1 > r5 => Encloses(ctr, Ring(layers[1]), Ring(layers[2]))

C6_Witness ==
    /\ sim # Null
    /\ sim.overpressure_radii_m["1psi"] > sim.overpressure_radii_m["5psi"]
    /\ center # <<sim.center.lon, sim.center.lat>>
    /\ Len(layers) = 2

(***************************************************************************)
(* Properties of the view state.                                           *)
(***************************************************************************)
ViewAtCenter ==
    /\ viewState.longitude = center[1]
    /\ viewState.latitude = center[2]

\* C10: after a map click, if no further click or gesture follows and the
\* frames of the eased transition are delivered, the view state's longitude and
\* latitude eventually equal the entry point; until then the transition to the
\* entry point is in progress.
C10_Converges ==
    /\ \A n \in 1..(MaxEvents + 1) :
          (lastInput = "click" /\ events = n) ~> (ViewAtCenter \/ events # n)
    /\ []((lastInput = "click" /\ ~ViewAtCenter) =>
              (map.ease # Null /\ map.ease.to = center))

C10_Witness ==
    /\ lastInput = "click"
    /\ center # InitCenter
    /\ ViewAtCenter
    /\ map.ease = Null

\* A step in which the map's zoom, and nothing else of its camera, changes.
ZoomOnlyMove ==
    /\ map'.zoom # map.zoom
    /\ map'.center = map.center
    /\ map'.bearing = map.bearing
    /\ map'.pitch = map.pitch

\* C11: an update of the view state that changes only the zoom (a zoom-only
\* gesture) stores the new zoom and leaves the stored longitude, latitude,
\* bearing and pitch unchanged.
C11_ZoomOnlyKeepsRest ==
    [][ZoomOnlyMove =>
          /\ viewState'.zoom = map'.zoom
          /\ viewState'.longitude = viewState.longitude
          /\ viewState'.latitude = viewState.latitude
          /\ viewState'.bearing = viewState.bearing
          /\ viewState'.pitch = viewState.pitch
      ]_vars

C11_Witness ==
    /\ lastInput = "gesture"
    /\ viewState.zoom # InitZoom
    /\ viewState.bearing # 0
    /\ viewState.longitude # InitCenter[1]

\* C12: the view state is written only by the map's move handler, with the
\* map's camera, and the entry point only by the map's click handler; starting
\* or settling a simulation or a candidate search, editing the form and
\* recomputing the overlay leave both unchanged.
C12_SingleWriter ==
    [][/\ viewState' # viewState =>
            /\ map' # map
            /\ viewState'.longitude = map'.center[1]
            /\ viewState'.latitude = map'.center[2]
            /\ viewState'.zoom = map'.zoom
            /\ viewState'.bearing = map'.bearing
            /\ viewState'.pitch = map'.pitch
            /\ center' = center
       /\ center' # center =>
            /\ lastInput' = "click"
            /\ events' = events + 1
            /\ viewState' = viewState
       /\ (SimIssued \/ SimSettled \/ PhaIssued \/ PhaSettled
             \/ params' # params \/ layers' # layers) =>
            /\ viewState' = viewState
            /\ center' = center
      ]_vars

C12_Witness ==
    /\ sim # Null
    /\ phaResults # <<>>
    /\ params # InitParams
    /\ center # InitCenter
    /\ ViewAtCenter

\* C13: the two pipelines are independent: starting or settling a candidate
\* search leaves the simulation's status, error and result unchanged, starting
\* or settling a simulation leaves the candidate status, error and list
\* unchanged, and a pipeline can be started whatever the state of the other.
C13_Independent ==
    [][/\ (PhaIssued \/ PhaSettled) =>
            /\ simStatus' = simStatus
            /\ simError' = simError
            /\ sim' = sim
            /\ simCalls' = simCalls
       /\ (SimIssued \/ SimSettled) =>
            /\ phaStatus' = phaStatus
            /\ phaError' = phaError
            /\ phaResults' = phaResults
            /\ phaCalls' = phaCalls
      ]_vars
    /\ [](/\ (simStatus # "loading" /\ events < MaxEvents) => ENABLED ClickRunSim
          /\ (phaStatus # "loading" /\ events < MaxEvents) => ENABLED ClickRefresh)

\* Every combination of the two statuses is reachable, so neither pipeline's
\* state keeps the other from loading.
C13_Witness ==
    /\ simStatus = "loading"
    /\ phaStatus = "error"
    /\ sim # Null
    /\ phaResults # <<>>

\* C14: the request issued by run-simulation carries the form values and the
\* entry point of the moment of the click; a map click or a form edit while the
\* request is in flight leaves the pending request as it was, and the result
\* stored when it resolves is an answer to that request.
C14_RequestCaptured ==
    [][/\ SimIssued =>
            /\ simCalls'[Len(simCalls')].request
                 = params @@ [lat |-> center[2], lon |-> center[1]]
            /\ SubSeq(simCalls', 1, Len(simCalls)) = simCalls
       /\ (~SimIssued /\ ~SimSettled) => simCalls' = simCalls
       /\ (SimSettled /\ lastSim'.settled.outcome = "ok") =>
            \E i \in DOMAIN simCalls :
                /\ simCalls' = RemoveAt(simCalls, i)
                /\ sim' \in Responses(simCalls[i].request)
                /\ sim'.center.lat = simCalls[i].request.lat
                /\ sim'.center.lon = simCalls[i].request.lon
      ]_vars

\* A request is in flight, and both the entry point and the form have changed
\* since it was issued.
C14_Witness ==
    /\ simCalls # <<>>
    /\ simCalls[1].request.lat # center[2]
    /\ simCalls[1].request.lon # center[1]
    /\ simCalls[1].request.diameter_m # params.diameter_m

\* C15: the overlay rings are a function of the stored result alone: a step
\* that leaves the result unchanged (a map move, a click choosing an entry
\* point, a change of status or error) leaves the rings unchanged, and the rings
\* change only in a step where a successful simulation answer replaces the
\* result.
C15_RingsFollowResult ==
    [][/\ sim' = sim => layers' = layers
       /\ layers' # layers =>
            /\ SimSettled
            /\ lastSim'.settled.outcome = "ok"
            /\ sim' = lastSim'.settled.value
            /\ sim' # sim
       /\ layers' = layersTable[sim']
      ]_vars

\* Rings are shown, and since their result arrived the entry point was moved,
\* the map was dragged and a later simulation failed.
C15_Witness ==
    /\ sim # Null
    /\ layers # <<>>
    /\ lastInput = "gesture"
    /\ simStatus = "error"
    /\ center # <<sim.center.lon, sim.center.lat>>
    /\ viewState.bearing # 0

\* C16: in every reachable state, while a simulation request is in flight the
\* simulation status is loading, so the run-simulation button cannot be used
\* until the request has settled; likewise for the candidate search and its
\* button.
C16_InFlightIsLoading ==
    /\ simCalls # <<>> => (simStatus = "loading" /\ ~ENABLED ClickRunSim)
    /\ phaCalls # <<>> => (phaStatus = "loading" /\ ~ENABLED ClickRefresh)

\* Both pipelines have a second request in flight, after a first one succeeded.
C16_Witness ==
    /\ simCalls # <<>>
    /\ phaCalls # <<>>
    /\ sim # Null
    /\ phaResults # <<>>

\* C17: in every reachable state the stored error message of a pipeline is
\* non-null exactly when the status of that pipeline is error; starting a
\* request clears the message, so a status of idle or loading never comes with
\* a message left over from an earlier failure.
C17_ErrorIffMessage ==
    /\ [](/\ (simError # NullString) <=> (simStatus = "error")
          /\ (phaError # NullString) <=> (phaStatus = "error"))
    /\ [][/\ SimIssued => simError' = NullString
          /\ PhaIssued => phaError' = NullString
         ]_vars

\* The simulation was started again after a failure and its message is gone,
\* while the candidate search shows a failure of its own.
C17_Witness ==
    /\ simStatus = "loading"
    /\ simError = NullString
    /\ lastSim.settled # Null
    /\ lastSim.settled.outcome = "failed"
    /\ phaStatus = "error"
    /\ phaError = "Search failed."

====
